---- MODULE Spec2Model ----
(***************************************************************************)
(* Model of strawberry/schema/execute.py: the GraphQL execution pipeline   *)
(* drivers execute (suspending) and execute_sync (blocking), and the       *)
(* helper parse_document.                                                  *)
(*                                                                         *)
(* Two requests are modelled side by side, one per driver, each with its   *)
(* own ExecutionContext, both given the same query, the same               *)
(* validate_queries flag and the same behaviour of the external parser,    *)
(* validator, executor and extension hooks.                                *)
(***************************************************************************)
EXTENDS Integers, Sequences, FiniteSets, TLC

VARIABLES
    query,              \* the query argument of the drivers
    validate_queries,   \* the validate_queries argument of the drivers
    stub,               \* outcomes of the external validator and executor
    hook,               \* what the registered extension's hooks do to the context
    pc,                 \* position of each driver in its body
    execution_context,  \* the ExecutionContext of each driver
    document,           \* local variable document of each driver
    result,             \* local variable result of each driver
    error,              \* exception in flight out of the parsing block
    ret,                \* how each call left the driver, and with what
    trace,              \* events observable from outside, in order
    writes              \* assignments to fields of the context, in order

vars == <<query, validate_queries, stub, hook, pc, execution_context,
          document, result, error, ret, trace, writes>>

env == <<query, validate_queries, stub, hook>>

----------------------------------------------------------------------------
(* Bounds *)

MaxValidationErrors == 2

MaxParseCalls == 3

----------------------------------------------------------------------------
(* Values *)

Modes == {"execute", "execute_sync"}

\* Optional[List[GraphQLError]]
None == [set |-> FALSE, val |-> <<>>]

Some(s) == [set |-> TRUE, val |-> s]

\* Python truth value of an Optional[List]: None and [] are both false
Truthy(o) == o.set /\ Len(o.val) > 0

ValidQuery == "{ hello }"

MalformedQuery == "{ hello"

CrashingQuery == "<not a str>"

Queries == {ValidQuery, MalformedQuery, CrashingQuery}

NoDocument == 0

PresetDocument == 1

\* every successful parse builds a new DocumentNode
FreshDocument(n) == 2 + n

GraphQLSyntaxError == [message |-> "Syntax Error", original_error |-> "None", n |-> 0]

\* GraphQLError(str(error), original_error=error)
WrappedError(e) == [message |-> e, original_error |-> e, n |-> 0]

ValidationError(i) == [message |-> "Validation", original_error |-> "None", n |-> i]

ExecutionError == [message |-> "Resolver", original_error |-> "ValueError", n |-> 0]

HookError == [message |-> "Cached", original_error |-> "None", n |-> 0]

ValidationErrors(k) == [i \in 1..k |-> ValidationError(i)]

\* GraphQLExecutionResult values the external executor may produce
ExecutorResults ==
    { [data |-> "data", errors |-> None],
      [data |-> "data", errors |-> Some(<<ExecutionError>>)],
      [data |-> "null", errors |-> Some(<<ExecutionError>>)] }

NoResult == [set |-> FALSE, awaitable |-> FALSE, data |-> "null", errors |-> None]

Completed(r) == [set |-> TRUE, awaitable |-> FALSE, data |-> r.data, errors |-> r.errors]

Awaitable(r) == [set |-> TRUE, awaitable |-> TRUE, data |-> r.data, errors |-> r.errors]

\* the registered extension writes context.errors when the named region is entered
Hooks ==
    { [at |-> "none", errors |-> <<>>] } \cup
    [at : {"request", "parsing", "validation"}, errors : {<<>>, <<HookError>>}]

\* merged output of the extensions' get_results
ExtensionsResults == "merged"

NotReturned == [kind |-> "running", data |-> "null", errors |-> None, extensions |-> "None"]

ExecutionResult(d, e, x) == [kind |-> "return", data |-> d, errors |-> e, extensions |-> x]

RuntimeError == [kind |-> "raise", data |-> "null", errors |-> None, extensions |-> "None"]

Event(name, errs, arg) == [ev |-> name, errors |-> errs, arg |-> arg]

Write(field, by) == [field |-> field, by |-> by]

RECURSIVE Count(_, _)
Count(s, name) ==
    IF s = <<>> THEN 0
    ELSE (IF s[1].ev = name THEN 1 ELSE 0) + Count(Tail(s), name)

RECURSIVE CountWrites(_, _)
CountWrites(s, field) ==
    IF s = <<>> THEN 0
    ELSE (IF s[1].field = field /\ s[1].by # "hook" THEN 1 ELSE 0)
         + CountWrites(Tail(s), field)

Has(s, name) == \E i \in 1..Len(s) : s[i].ev = name

----------------------------------------------------------------------------
(* External collaborators *)

\* graphql.parse
parse(q, n) ==
    IF q = ValidQuery THEN [raised |-> "none", document |-> FreshDocument(n)]
    ELSE IF q = MalformedQuery THEN [raised |-> "GraphQLError", document |-> NoDocument]
    ELSE [raised |-> "TypeError", document |-> NoDocument]

\* graphql.validation.validate, through validate_document
validate_document == stub.validate

\* graphql.execute
original_execute ==
    IF stub.awaitable THEN Awaitable(stub.execute) ELSE Completed(stub.execute)

\* an extension hook run on entering region r
RunHook(ctx, r) ==
    IF hook.at = r THEN [ctx EXCEPT !.errors = Some(hook.errors)] ELSE ctx

HookWrites(r) == IF hook.at = r THEN <<Write("errors", "hook")>> ELSE <<>>

----------------------------------------------------------------------------
(* parse_document *)

\* parse_document without the early return on a stored document
parse_document_NoCache(ctx, q, n) ==
    LET r == parse(q, n) IN
    IF r.raised = "none"
    THEN [ctx |-> [ctx EXCEPT !.graphql_document = r.document],
          returned |-> r.document, raised |-> "none", parsed |-> TRUE]
    ELSE [ctx |-> ctx, returned |-> NoDocument, raised |-> r.raised, parsed |-> TRUE]

parse_document(ctx, q, n) ==
    IF ctx.graphql_document # NoDocument
    THEN [ctx |-> ctx, returned |-> ctx.graphql_document, raised |-> "none",
          parsed |-> FALSE]
    ELSE LET r == parse(q, n) IN
         IF r.raised = "none"
         THEN [ctx |-> [ctx EXCEPT !.graphql_document = r.document],
               returned |-> r.document, raised |-> "none", parsed |-> TRUE]
         ELSE [ctx |-> ctx, returned |-> NoDocument, raised |-> r.raised,
               parsed |-> TRUE]

----------------------------------------------------------------------------
(* State after construction of the two requests *)

Init ==
    /\ query \in Queries
    /\ validate_queries \in BOOLEAN
    /\ stub \in [validate : {ValidationErrors(k) : k \in 0..MaxValidationErrors},
                 execute : ExecutorResults,
                 awaitable : BOOLEAN]
    /\ hook \in Hooks
    /\ \E d \in {NoDocument, PresetDocument} :
         execution_context =
           [m \in Modes |-> [graphql_document |-> d, errors |-> None, result |-> NoResult]]
    /\ pc = [m \in Modes |-> "start"]
    /\ document = [m \in Modes |-> NoDocument]
    /\ result = [m \in Modes |-> NoResult]
    /\ error = [m \in Modes |-> "none"]
    /\ ret = [m \in Modes |-> NotReturned]
    /\ trace = [m \in Modes |-> <<>>]
    /\ writes = [m \in Modes |-> <<>>]

----------------------------------------------------------------------------
(* Steps of execute and execute_sync.  m names the driver. *)

Log(m, events) == trace' = [trace EXCEPT ![m] = trace[m] \o events]

Record(m, ws) == writes' = [writes EXCEPT ![m] = writes[m] \o ws]

Goto(m, l) == pc' = [pc EXCEPT ![m] = l]

\* with extensions_runner.request(): entry
RequestEnter(m) ==
    /\ pc[m] = "start"
    /\ LET ctx == RunHook(execution_context[m], "request") IN
         /\ execution_context' = [execution_context EXCEPT ![m] = ctx]
         /\ Log(m, <<Event("request_enter", ctx.errors, "")>>)
    /\ Record(m, HookWrites("request"))
    /\ Goto(m, "parsing_enter")
    /\ UNCHANGED <<env, document, result, error, ret>>

\* with extensions_runner.parsing(): entry
ParsingEnter(m) ==
    /\ pc[m] = "parsing_enter"
    /\ LET ctx == RunHook(execution_context[m], "parsing") IN
         /\ execution_context' = [execution_context EXCEPT ![m] = ctx]
         /\ Log(m, <<Event("parsing_enter", ctx.errors, "")>>)
    /\ Record(m, HookWrites("parsing"))
    /\ Goto(m, "parse_document")
    /\ UNCHANGED <<env, document, result, error, ret>>

\* the effect of one call parse_document(execution_context, q) by m
CallParseDocument(m, q) ==
    LET r == parse_document(execution_context[m], q, Count(trace[m], "parse")) IN
      /\ execution_context' = [execution_context EXCEPT ![m] = r.ctx]
      /\ document' = [document EXCEPT ![m] = IF r.raised = "none" THEN r.returned ELSE @]
      /\ error' = [error EXCEPT ![m] = r.raised]
      /\ Log(m, <<Event("parse_document", r.ctx.errors, q)>>
                \o (IF r.parsed THEN <<Event("parse", r.ctx.errors, q)>> ELSE <<>>))
      /\ Record(m, IF r.ctx # execution_context[m]
                   THEN <<Write("graphql_document", "parse_document")>> ELSE <<>>)

\* document = parse_document(execution_context, query)
ParseDocument(m) ==
    /\ pc[m] = "parse_document"
    /\ CallParseDocument(m, query)
    /\ Goto(m, "parsing_exit")
    /\ UNCHANGED <<env, result, ret>>

\* ParsingExit letting a GraphQLError fall through to the validation step
ParsingExit_Swallow(m) ==
    /\ pc[m] = "parsing_exit"
    /\ Log(m, <<Event("parsing_exit", execution_context[m].errors, "")>>)
    /\ Goto(m, IF error[m] \in {"none", "GraphQLError"} THEN "validate_queries"
               ELSE "except_Exception")
    /\ UNCHANGED <<env, execution_context, document, result, error, ret, writes>>

\* with extensions_runner.parsing(): exit, then the except clauses
ParsingExit(m) ==
    /\ pc[m] = "parsing_exit"
    /\ Log(m, <<Event("parsing_exit", execution_context[m].errors, "")>>)
    /\ Goto(m, IF error[m] = "none" THEN "validate_queries"
               ELSE IF error[m] = "GraphQLError" THEN "except_GraphQLError"
               ELSE "except_Exception")
    /\ UNCHANGED <<env, execution_context, document, result, error, ret, writes>>

\* the body shared by the two except clauses, e the error put in the result
ShortCircuitOnParseError(m, e) ==
    /\ execution_context' = [execution_context EXCEPT ![m].errors = Some(<<e>>)]
    /\ Record(m, <<Write("errors", "except")>>)
    /\ Log(m, <<Event("get_extensions_results", Some(<<e>>), "")>>)
    /\ ret' = [ret EXCEPT ![m] = ExecutionResult("null", Some(<<e>>), ExtensionsResults)]
    /\ error' = [error EXCEPT ![m] = "none"]
    /\ Goto(m, "request_exit")
    /\ UNCHANGED <<env, document, result>>

\* except GraphQLError as error
ExceptGraphQLError(m) ==
    /\ pc[m] = "except_GraphQLError"
    /\ ShortCircuitOnParseError(m, GraphQLSyntaxError)

\* ExceptException letting the failure leave the driver
ExceptException_Propagate(m) ==
    /\ pc[m] = "except_Exception"
    /\ ret' = [ret EXCEPT ![m] = RuntimeError]
    /\ error' = [error EXCEPT ![m] = "none"]
    /\ Goto(m, "request_exit")
    /\ UNCHANGED <<env, execution_context, document, result, trace, writes>>

\* except Exception as error
ExceptException(m) ==
    /\ pc[m] = "except_Exception"
    /\ ShortCircuitOnParseError(m, WrappedError(error[m]))

\* if validate_queries: with extensions_runner.validation(): entry
ValidationEnter(m) ==
    /\ pc[m] = "validate_queries"
    /\ validate_queries
    /\ LET ctx == RunHook(execution_context[m], "validation") IN
         /\ execution_context' = [execution_context EXCEPT ![m] = ctx]
         /\ Log(m, <<Event("validation_enter", ctx.errors, "")>>)
    /\ Record(m, HookWrites("validation"))
    /\ Goto(m, "validate_document")
    /\ UNCHANGED <<env, document, result, error, ret>>

\* SkipValidation running the validation step although the flag is off
SkipValidation_Validate(m) ==
    /\ pc[m] = "validate_queries"
    /\ ~validate_queries
    /\ Goto(m, "validate_document")
    /\ UNCHANGED <<env, execution_context, document, result, error, ret, trace, writes>>

\* if validate_queries: false
SkipValidation(m) ==
    /\ pc[m] = "validate_queries"
    /\ ~validate_queries
    /\ Goto(m, "original_execute")
    /\ UNCHANGED <<env, execution_context, document, result, error, ret, trace, writes>>

\* ValidateDocument testing the truth value of context.errors instead of
\* comparing it with None
ValidateDocument_Falsy(m) ==
    /\ pc[m] = "validate_document"
    /\ IF ~Truthy(execution_context[m].errors)
       THEN /\ execution_context' =
                 [execution_context EXCEPT ![m].errors = Some(validate_document)]
            /\ Log(m, <<Event("validate", Some(validate_document), "")>>)
            /\ Record(m, <<Write("errors", "validate_document")>>)
       ELSE UNCHANGED <<execution_context, trace, writes>>
    /\ Goto(m, "check_errors")
    /\ UNCHANGED <<env, document, result, error, ret>>

\* ValidateDocument without the test that context.errors is still unset
ValidateDocument_Always(m) ==
    /\ pc[m] = "validate_document"
    /\ execution_context' =
         [execution_context EXCEPT ![m].errors = Some(validate_document)]
    /\ Log(m, <<Event("validate", Some(validate_document), "")>>)
    /\ Record(m, <<Write("errors", "validate_document")>>)
    /\ Goto(m, "check_errors")
    /\ UNCHANGED <<env, document, result, error, ret>>

\* if execution_context.errors is None: execution_context.errors = validate_document(...)
ValidateDocument(m) ==
    /\ pc[m] = "validate_document"
    /\ IF ~execution_context[m].errors.set
       THEN /\ execution_context' =
                 [execution_context EXCEPT ![m].errors = Some(validate_document)]
            /\ Log(m, <<Event("validate", Some(validate_document), "")>>)
            /\ Record(m, <<Write("errors", "validate_document")>>)
       ELSE UNCHANGED <<execution_context, trace, writes>>
    /\ Goto(m, "check_errors")
    /\ UNCHANGED <<env, document, result, error, ret>>

\* CheckErrors putting the terminal hooks' output in the returned result
CheckErrors_WithExtensions(m) ==
    /\ pc[m] = "check_errors"
    /\ IF Truthy(execution_context[m].errors)
       THEN /\ ret' = [ret EXCEPT ![m] =
                         ExecutionResult("null", execution_context[m].errors,
                                         ExtensionsResults)]
            /\ Log(m, <<Event("get_extensions_results", execution_context[m].errors, "")>>)
       ELSE UNCHANGED <<ret, trace>>
    /\ Goto(m, "validation_exit")
    /\ UNCHANGED <<env, execution_context, document, result, error, writes>>

\* CheckErrors calling the executor from inside the validation block
CheckErrors_ExecuteInside(m) ==
    /\ pc[m] = "check_errors"
    /\ ret' = [ret EXCEPT ![m] =
                 IF Truthy(execution_context[m].errors)
                 THEN ExecutionResult("null", execution_context[m].errors, "None")
                 ELSE @]
    /\ Goto(m, IF Truthy(execution_context[m].errors) THEN "validation_exit"
               ELSE "original_execute")
    /\ UNCHANGED <<env, execution_context, document, result, error, trace, writes>>

\* CheckErrors never returning: validation errors do not stop the request
CheckErrors_Never(m) ==
    /\ pc[m] = "check_errors"
    /\ Goto(m, "validation_exit")
    /\ UNCHANGED <<env, execution_context, document, result, error, ret, trace, writes>>

\* CheckErrors returning without leaving the open regions
CheckErrors_NoExit(m) ==
    /\ pc[m] = "check_errors"
    /\ ret' = [ret EXCEPT ![m] =
                 IF Truthy(execution_context[m].errors)
                 THEN ExecutionResult("null", execution_context[m].errors, "None")
                 ELSE @]
    /\ Goto(m, IF Truthy(execution_context[m].errors) THEN "done" ELSE "validation_exit")
    /\ UNCHANGED <<env, execution_context, document, result, error, trace, writes>>

\* if execution_context.errors: return ExecutionResult(data=None, errors=...)
CheckErrors(m) ==
    /\ pc[m] = "check_errors"
    /\ ret' = [ret EXCEPT ![m] =
                 IF Truthy(execution_context[m].errors)
                 THEN ExecutionResult("null", execution_context[m].errors, "None")
                 ELSE @]
    /\ Goto(m, "validation_exit")
    /\ UNCHANGED <<env, execution_context, document, result, error, trace, writes>>

\* ValidationExit going on to execution although the block returned
ValidationExit_Continue(m) ==
    /\ pc[m] = "validation_exit"
    /\ Log(m, <<Event("validation_exit", execution_context[m].errors, "")>>)
    /\ Goto(m, "original_execute")
    /\ UNCHANGED <<env, execution_context, document, result, error, ret, writes>>

\* with extensions_runner.validation(): exit
ValidationExit(m) ==
    /\ pc[m] = "validation_exit"
    /\ Log(m, <<Event("validation_exit", execution_context[m].errors, "")>>)
    /\ Goto(m, IF ret[m].kind = "return" THEN "request_exit" ELSE "original_execute")
    /\ UNCHANGED <<env, execution_context, document, result, error, ret, writes>>

\* OriginalExecute storing what the executor returned on the context at once
OriginalExecute_Store(m) ==
    /\ pc[m] = "original_execute"
    /\ result' = [result EXCEPT ![m] = original_execute]
    /\ execution_context' = [execution_context EXCEPT ![m].result = original_execute]
    /\ Record(m, <<Write("result", "original_execute")>>)
    /\ Log(m, <<Event("original_execute", execution_context[m].errors, "")>>)
    /\ Goto(m, "isawaitable")
    /\ UNCHANGED <<env, document, error, ret>>

\* result = original_execute(schema, document, ...)
OriginalExecute(m) ==
    /\ pc[m] = "original_execute"
    /\ result' = [result EXCEPT ![m] = original_execute]
    /\ Log(m, <<Event("original_execute", execution_context[m].errors, "")>>)
    /\ Goto(m, "isawaitable")
    /\ UNCHANGED <<env, execution_context, document, error, ret, writes>>

\* AwaitResult also copying the result's errors to the context
AwaitResult_CopyErrors(m) ==
    /\ m = "execute"
    /\ pc[m] = "isawaitable"
    /\ LET r == [result[m] EXCEPT !.awaitable = FALSE] IN
         /\ result' = [result EXCEPT ![m] = r]
         /\ execution_context' =
              [execution_context EXCEPT
                 ![m].result = r,
                 ![m].errors = IF Truthy(r.errors) THEN r.errors ELSE @]
         /\ Record(m, <<Write("result", "execute")>>
                      \o (IF Truthy(r.errors) THEN <<Write("errors", "execute")>> ELSE <<>>))
    /\ Log(m, IF result[m].awaitable
              THEN <<Event("await", execution_context[m].errors, "")>> ELSE <<>>)
    /\ Goto(m, "request_exit")
    /\ UNCHANGED <<env, document, error, ret>>

\* execute: if isawaitable(result): result = await result;
\*          execution_context.result = result
AwaitResult(m) ==
    /\ m = "execute"
    /\ pc[m] = "isawaitable"
    /\ LET r == [result[m] EXCEPT !.awaitable = FALSE] IN
         /\ result' = [result EXCEPT ![m] = r]
         /\ execution_context' = [execution_context EXCEPT ![m].result = r]
    /\ Log(m, IF result[m].awaitable
              THEN <<Event("await", execution_context[m].errors, "")>> ELSE <<>>)
    /\ Record(m, <<Write("result", "execute")>>)
    /\ Goto(m, "request_exit")
    /\ UNCHANGED <<env, document, error, ret>>

\* CancelAndRaise raising without cancelling the pending computation
CancelAndRaise_NoCancel(m) ==
    /\ m = "execute_sync"
    /\ pc[m] = "isawaitable"
    /\ result[m].awaitable
    /\ ret' = [ret EXCEPT ![m] = RuntimeError]
    /\ Goto(m, "request_exit")
    /\ UNCHANGED <<env, execution_context, document, result, error, trace, writes>>

\* execute_sync: if isawaitable(result): ensure_future(result).cancel();
\*               raise RuntimeError(...)
CancelAndRaise(m) ==
    /\ m = "execute_sync"
    /\ pc[m] = "isawaitable"
    /\ result[m].awaitable
    /\ Log(m, <<Event("cancel", execution_context[m].errors, "")>>)
    /\ ret' = [ret EXCEPT ![m] = RuntimeError]
    /\ Goto(m, "request_exit")
    /\ UNCHANGED <<env, execution_context, document, result, error, writes>>

\* StoreResult without the copy of the result's errors
StoreResult_NoCopy(m) ==
    /\ m = "execute_sync"
    /\ pc[m] = "isawaitable"
    /\ ~result[m].awaitable
    /\ execution_context' = [execution_context EXCEPT ![m].result = result[m]]
    /\ Record(m, <<Write("result", "execute_sync")>>)
    /\ Goto(m, "request_exit")
    /\ UNCHANGED <<env, document, result, error, ret, trace>>

\* execute_sync: execution_context.result = result;
\*               if result.errors: execution_context.errors = result.errors
StoreResult(m) ==
    /\ m = "execute_sync"
    /\ pc[m] = "isawaitable"
    /\ ~result[m].awaitable
    /\ execution_context' =
         [execution_context EXCEPT
            ![m].result = result[m],
            ![m].errors = IF Truthy(result[m].errors) THEN result[m].errors ELSE @]
    /\ Record(m, <<Write("result", "execute_sync")>>
                 \o (IF Truthy(result[m].errors)
                     THEN <<Write("errors", "execute_sync")>> ELSE <<>>))
    /\ Goto(m, "request_exit")
    /\ UNCHANGED <<env, document, result, error, ret, trace>>

\* with extensions_runner.request(): exit, on return, on raise or at the end
\* of the block
RequestExit(m) ==
    /\ pc[m] = "request_exit"
    /\ Log(m, <<Event("request_exit", execution_context[m].errors, "")>>)
    /\ Goto(m, IF ret[m].kind = "running" THEN "return" ELSE "done")
    /\ UNCHANGED <<env, execution_context, document, result, error, ret, writes>>

\* return ExecutionResult(data=result.data, errors=result.errors,
\*                        extensions=get_extensions_results())
ReturnResult(m) ==
    /\ pc[m] = "return"
    /\ Log(m, <<Event("get_extensions_results", execution_context[m].errors, "")>>)
    /\ ret' = [ret EXCEPT ![m] =
                 ExecutionResult(result[m].data, result[m].errors, ExtensionsResults)]
    /\ Goto(m, "done")
    /\ UNCHANGED <<env, execution_context, document, result, error, writes>>

Next ==
    \E m \in Modes :
        \/ RequestEnter(m)
        \/ ParsingEnter(m)
        \/ ParseDocument(m)
        \/ ParsingExit(m)
        \/ ExceptGraphQLError(m)
        \/ ExceptException(m)
        \/ ValidationEnter(m)
        \/ SkipValidation(m)
        \/ ValidateDocument(m)
        \/ CheckErrors(m)
        \/ ValidationExit(m)
        \/ OriginalExecute(m)
        \/ AwaitResult(m)
        \/ CancelAndRaise(m)
        \/ StoreResult(m)
        \/ RequestExit(m)
        \/ ReturnResult(m)

Spec == Init /\ [][Next]_vars

----------------------------------------------------------------------------
(* Repeated calls of parse_document on one context, with any queries *)

InitParse ==
    /\ query = ValidQuery
    /\ validate_queries = TRUE
    /\ stub = [validate |-> <<>>, execute |-> [data |-> "data", errors |-> None],
               awaitable |-> FALSE]
    /\ hook = [at |-> "none", errors |-> <<>>]
    /\ \E d \in {NoDocument, PresetDocument} :
         execution_context =
           [m \in Modes |-> [graphql_document |-> d, errors |-> None, result |-> NoResult]]
    /\ pc = [m \in Modes |-> "parse_document"]
    /\ document = [m \in Modes |-> NoDocument]
    /\ result = [m \in Modes |-> NoResult]
    /\ error = [m \in Modes |-> "none"]
    /\ ret = [m \in Modes |-> NotReturned]
    /\ trace = [m \in Modes |-> <<>>]
    /\ writes = [m \in Modes |-> <<>>]

ParseDocumentAgain(m) ==
    /\ Count(trace[m], "parse_document") < MaxParseCalls
    /\ \E q \in Queries : CallParseDocument(m, q)
    /\ UNCHANGED <<env, pc, result, ret>>

NextParse == \E m \in Modes : ParseDocumentAgain(m)

SpecParse == InitParse /\ [][NextParse]_vars

----------------------------------------------------------------------------
(* Properties *)

Done(m) == pc[m] = "done"

Returned(m) == Done(m) /\ ret[m].kind = "return"

Raised(m) == Done(m) /\ ret[m].kind = "raise"

\* the external parser was invoked on the malformed query and raised GraphQLError
ParserFailed(m) ==
    \E i \in 1..Len(trace[m]) :
        trace[m][i].ev = "parse" /\ trace[m][i].arg = MalformedQuery

\* the external validator was invoked and returned at least one error
ValidatorFailed(m) == Has(trace[m], "validate") /\ Len(stub.validate) > 0

Regions == {"request", "parsing", "validation"}

EnterEvent(r) ==
    CASE r = "request" -> "request_enter"
      [] r = "parsing" -> "parsing_enter"
      [] r = "validation" -> "validation_enter"

ExitEvent(r) ==
    CASE r = "request" -> "request_exit"
      [] r = "parsing" -> "parsing_exit"
      [] r = "validation" -> "validation_exit"

Entered(m, r) == Count(trace[m], EnterEvent(r))

Exited(m, r) == Count(trace[m], ExitEvent(r))

\* position of the first event named name in s, 0 when there is none
First(s, name) ==
    IF Has(s, name) THEN CHOOSE i \in 1..Len(s) :
                            s[i].ev = name /\ \A j \in 1..(i - 1) : s[j].ev # name
    ELSE 0

\* C1: when the external parser fails with a parse error, the call returns
\* data = null with exactly that one error, context.errors holds the same
\* one-entry sequence, and the validation region, the validator and the
\* executor are never reached.
C1_ParseErrorShortCircuit ==
    \A m \in Modes :
        ParserFailed(m) =>
            /\ ~Has(trace[m], "validation_enter")
            /\ ~Has(trace[m], "validate")
            /\ ~Has(trace[m], "original_execute")
            /\ ret[m].kind # "raise"
            /\ Done(m) =>
                 /\ ret[m].kind = "return"
                 /\ ret[m].data = "null"
                 /\ ret[m].errors = Some(<<GraphQLSyntaxError>>)
                 /\ execution_context[m].errors = Some(<<GraphQLSyntaxError>>)

C1_Witness == \A m \in Modes : Done(m) /\ ParserFailed(m)

\* C2: with validation enabled, when parsing succeeds and the validator
\* returns N > 0 errors, the call returns data = null with exactly those N
\* errors in the validator's order, and the executor is never invoked.
C2_ValidationErrorShortCircuit ==
    \A m \in Modes :
        ValidatorFailed(m) =>
            /\ ~Has(trace[m], "original_execute")
            /\ ret[m].kind # "raise"
            /\ Done(m) =>
                 /\ ret[m].kind = "return"
                 /\ ret[m].data = "null"
                 /\ ret[m].errors = Some(stub.validate)
                 /\ Len(ret[m].errors.val) = Len(stub.validate)

C2_Witness ==
    \A m \in Modes : Done(m) /\ ValidatorFailed(m) /\ Len(stub.validate) = MaxValidationErrors

\* C3: every region entered during a request is exited exactly once before
\* the call finishes, on every exit path; the request region is exited on
\* early return and on the raise of execute_sync too.
C3_RegionsExitedOnce ==
    \A m \in Modes :
        /\ \A r \in Regions :
             /\ Exited(m, r) <= Entered(m, r)
             /\ Entered(m, r) <= 1
             /\ Done(m) => Exited(m, r) = Entered(m, r)
        /\ Done(m) => Exited(m, "request") = 1

C3_Witness ==
    /\ Raised("execute_sync")
    /\ Returned("execute")
    /\ \A r \in Regions : Exited("execute_sync", r) = 1
    /\ Len(stub.validate) = 0

C3_WitnessEarlyReturn ==
    \A m \in Modes : Returned(m) /\ ValidatorFailed(m) /\ Exited(m, "validation") = 1

\* C4: on every path on which a driver returns an ExecutionResult, the
\* terminal hooks (get_extensions_results) run exactly once in that request.
C4_TerminalHooksOncePerResult ==
    \A m \in Modes :
        Returned(m) => Count(trace[m], "get_extensions_results") = 1

\* C5: whenever the terminal hooks run, the request region has already been
\* closed.
C5_TerminalHooksAfterRequestClosed ==
    \A m \in Modes :
        \A i \in 1..Len(trace[m]) :
            trace[m][i].ev = "get_extensions_results" =>
                \E j \in 1..(i - 1) : trace[m][j].ev = "request_exit"

\* the external executor handed execute_sync a still-pending computation
PendingInSync ==
    /\ Has(trace["execute_sync"], "original_execute")
    /\ result["execute_sync"].awaitable

\* C6: in execute_sync, when the executor returns a still-pending
\* computation, the call cancels it and then raises instead of returning;
\* context.result stays unset, context.errors is what it was when the
\* executor was called, the terminal hooks do not run and the request region
\* is still exited.
C6_SyncFatalOnPending ==
    LET m == "execute_sync"
        t == trace[m]
        x == First(t, "original_execute")
    IN  PendingInSync =>
            /\ ~execution_context[m].result.set
            /\ execution_context[m].errors = t[x].errors
            /\ ~Has(t, "get_extensions_results")
            /\ ret[m].kind # "return"
            /\ pc[m] # "isawaitable" =>
                 /\ Len(t) > x
                 /\ t[x + 1].ev = "cancel"
                 /\ Count(t, "cancel") = 1
                 /\ ret[m] = RuntimeError
            /\ Done(m) =>
                 /\ Raised(m)
                 /\ Exited(m, "request") = 1
                 /\ t[Len(t)].ev = "request_exit"

C6_Witness == PendingInSync /\ Raised("execute_sync")

\* C7: when the executor completes without suspending, execute and
\* execute_sync produce the same events, return the same ExecutionResult and
\* leave the context in the same final state, including the context.errors
\* the terminal hooks observe.
C7_ExecuteSyncParity ==
    ( /\ \A m \in Modes : Done(m) /\ Has(trace[m], "original_execute")
      /\ ~stub.awaitable )
    =>  /\ trace["execute"] = trace["execute_sync"]
        /\ ret["execute"] = ret["execute_sync"]
        /\ execution_context["execute"] = execution_context["execute_sync"]

\* parsing ended without raising
ParsingSucceeded(m) == Has(trace[m], "parsing_exit") /\ error[m] = "none"
                       /\ document[m] # NoDocument

\* C8: with validate_queries = false, once parsing succeeds the executor is
\* invoked exactly once whatever the validator would have returned; the
\* validation region is not entered and the validator is not invoked.
C8_NoValidationWhenDisabled ==
    ~validate_queries =>
        \A m \in Modes :
            /\ ~Has(trace[m], "validation_enter")
            /\ ~Has(trace[m], "validation_exit")
            /\ ~Has(trace[m], "validate")
            /\ Count(trace[m], "original_execute") <= 1
            /\ (Done(m) /\ ParsingSucceeded(m)) =>
                 Count(trace[m], "original_execute") = 1

C8_Witness ==
    /\ ~validate_queries
    /\ Len(stub.validate) > 0
    /\ \A m \in Modes : Done(m) /\ ParsingSucceeded(m)

\* number of calls of parse_document made on the context of m
Calls(m) == Count(trace[m], "parse_document")

\* number of invocations of the external parser for the context of m
ParserCalls(m) == Count(trace[m], "parse")

\* C9 as stated: any number of calls of parse_document on one context
\* invokes the external parser at most once.
C9_ParserAtMostOnce == \A m \in Modes : ParserCalls(m) <= 1

\* a call of parse_document on the context of m happens in this step
ParseDocumentCalled(m) == Calls(m)' = Calls(m) + 1

\* C9 amended: the external parser succeeds at most once per context; once
\* the context holds a document (pre-set, or stored by the first successful
\* call) every later call returns that identical document without invoking
\* the parser and without changing the context; a call made while no
\* document is stored invokes the parser once, and a failed parse stores
\* nothing.
C9_ParseDocumentCaches ==
    /\ [](\A m \in Modes :
            /\ Cardinality({i \in 1..Len(trace[m]) :
                              trace[m][i].ev = "parse"
                              /\ trace[m][i].arg = ValidQuery}) <= 1
            /\ (Calls(m) > 0 /\ error[m] = "none") =>
                 /\ document[m] # NoDocument
                 /\ document[m] = execution_context[m].graphql_document)
    /\ [][\A m \in Modes :
            ParseDocumentCalled(m) =>
                IF execution_context[m].graphql_document # NoDocument
                THEN /\ ParserCalls(m)' = ParserCalls(m)
                     /\ execution_context'[m] = execution_context[m]
                     /\ error'[m] = "none"
                     /\ document'[m] = execution_context[m].graphql_document
                ELSE /\ ParserCalls(m)' = ParserCalls(m) + 1
                     /\ (error'[m] # "none" =>
                           execution_context'[m] = execution_context[m])
                     /\ (error'[m] = "none" =>
                           execution_context'[m].graphql_document = document'[m])]_vars

C9_Witness ==
    \E m \in Modes :
        /\ Calls(m) = MaxParseCalls
        /\ ParserCalls(m) = 2
        /\ error[m] = "none"
        /\ execution_context[m].graphql_document = FreshDocument(1)

\* assignments to field made by the driver itself, in order
DriverWrites(m, field) ==
    SelectSeq(writes[m], LAMBDA w : w.field = field /\ w.by # "hook")

\* C10 as stated: context.document and context.errors are each assigned at
\* most once by the driver during one request.
C10_WrittenAtMostOnce ==
    \A m \in Modes :
        /\ Len(DriverWrites(m, "graphql_document")) <= 1
        /\ Len(DriverWrites(m, "errors")) <= 1

\* C10 amended: context.document is assigned at most once by the driver;
\* context.errors is assigned at most once by execute, and at most twice by
\* execute_sync, the second assignment being the copy of the result's errors
\* after execution over the empty sequence the validator had stored.
C10_ErrorsWrittenOnceExceptSyncCopy ==
    \A m \in Modes :
        /\ Len(DriverWrites(m, "graphql_document")) <= 1
        /\ \/ Len(DriverWrites(m, "errors")) <= 1
           \/ /\ m = "execute_sync"
              /\ DriverWrites(m, "errors") =
                   <<Write("errors", "validate_document"), Write("errors", "execute_sync")>>
              /\ stub.validate = <<>>
              /\ Truthy(result[m].errors)

C10_Witness ==
    /\ Done("execute_sync")
    /\ Done("execute")
    /\ Len(DriverWrites("execute_sync", "errors")) = 2
    /\ Len(DriverWrites("execute", "errors")) = 1

\* the call returned from inside the validation block
ValidationShortCircuit(m) ==
    /\ Returned(m)
    /\ Has(trace[m], "validation_exit")
    /\ ~Has(trace[m], "original_execute")

NonEmptyBeforeExecution(m, i) ==
    /\ Truthy(trace[m][i].errors)
    /\ \A j \in 1..i : trace[m][j].ev # "original_execute"

\* C12 as stated: once context.errors holds a non-empty sequence at any point
\* of a request, the executor is not invoked later in that request and the
\* call returns data = null, whatever validate_queries is.
C12_NonEmptyErrorsTerminal ==
    \A m \in Modes :
        \A i \in 1..Len(trace[m]) :
            Truthy(trace[m][i].errors) =>
                /\ \A j \in (i + 1)..Len(trace[m]) : trace[m][j].ev # "original_execute"
                /\ Done(m) => (ret[m].kind = "return" /\ ret[m].data = "null")

\* C12 amended: with validate_queries = true, once context.errors holds a
\* non-empty sequence at any point before the executor would be called, the
\* executor is never invoked and the call returns data = null.
C12_NonEmptyErrorsTerminalWhenValidating ==
    validate_queries =>
        \A m \in Modes :
            \A i \in 1..Len(trace[m]) :
                NonEmptyBeforeExecution(m, i) =>
                    /\ ~Has(trace[m], "original_execute")
                    /\ Done(m) => (ret[m].kind = "return" /\ ret[m].data = "null")

C12_Witness ==
    /\ validate_queries
    /\ hook.at = "request"
    /\ query = ValidQuery
    /\ \A m \in Modes : Done(m) /\ NonEmptyBeforeExecution(m, 1)

\* position of the first event named name in the trace of m, 0 when none
Pos(m, name) == First(trace[m], name)

\* region r of the request of m is open
Open(m, r) == Entered(m, r) > Exited(m, r)

\* C13: phases are sequential and never overlap: parsing is entered after the
\* request region is entered and is closed before validation is entered;
\* validation is closed before the executor is invoked; the executor has
\* returned (in execute, its awaited result has completed) before the request
\* region is exited; parsing and validation are never open together.
C13_PhasesSequential ==
    \A m \in Modes :
        /\ Has(trace[m], "parsing_enter") =>
             /\ Pos(m, "request_enter") > 0
             /\ Pos(m, "request_enter") < Pos(m, "parsing_enter")
        /\ Has(trace[m], "validation_enter") =>
             /\ Pos(m, "parsing_exit") > Pos(m, "parsing_enter")
             /\ Pos(m, "parsing_exit") < Pos(m, "validation_enter")
        /\ Has(trace[m], "original_execute") =>
             /\ Pos(m, "parsing_exit") > 0
             /\ Pos(m, "parsing_exit") < Pos(m, "original_execute")
             /\ ~Open(m, "parsing") /\ ~Open(m, "validation")
             /\ Has(trace[m], "validation_enter") =>
                  /\ Pos(m, "validation_exit") > Pos(m, "validation_enter")
                  /\ Pos(m, "validation_exit") < Pos(m, "original_execute")
        /\ (Has(trace[m], "request_exit") /\ Has(trace[m], "original_execute")) =>
             /\ Pos(m, "original_execute") < Pos(m, "request_exit")
             /\ m = "execute" =>
                  /\ ~result[m].awaitable
                  /\ execution_context[m].result.set
                  /\ stub.awaitable =>
                       /\ Pos(m, "await") > Pos(m, "original_execute")
                       /\ Pos(m, "await") < Pos(m, "request_exit")
        /\ ~(Open(m, "parsing") /\ Open(m, "validation"))
        /\ (Open(m, "parsing") \/ Open(m, "validation")) => Open(m, "request")

C13_Witness ==
    /\ stub.awaitable
    /\ \A m \in Modes :
         /\ Done(m)
         /\ Has(trace[m], "validate")
         /\ Has(trace[m], "original_execute")

\* context.errors as the driver finds it inside the validation region, after
\* the extensions' hooks on entering the region
ErrorsAtValidation(m) == trace[m][Pos(m, "validation_enter")].errors

\* the driver of m has made its test of context.errors at the top of the
\* validation block
ValidationStepDone(m) ==
    Has(trace[m], "validation_enter") /\ pc[m] # "validate_document"

\* C14: with validation enabled, the validator is invoked if and only if
\* context.errors is still unset when the driver tests it inside the
\* validation region; when an extension has populated it, the validator is
\* not invoked and the validation step leaves context.errors unchanged; a
\* populated non-empty sequence short-circuits with exactly those errors, a
\* populated empty sequence lets execution proceed.
C14_ValidatorRunsIffErrorsUnset ==
    \A m \in Modes :
        ValidationStepDone(m) =>
            LET e == ErrorsAtValidation(m) IN
            /\ Has(trace[m], "validate") <=> ~e.set
            /\ Count(trace[m], "validate") <= 1
            /\ e.set =>
                 /\ Has(trace[m], "validation_exit") =>
                      trace[m][Pos(m, "validation_exit")].errors = e
                 /\ pc[m] \in {"check_errors", "validation_exit"} =>
                      execution_context[m].errors = e
            /\ Truthy(e) =>
                 /\ ~Has(trace[m], "original_execute")
                 /\ Done(m) =>
                      /\ ret[m].kind = "return"
                      /\ ret[m].data = "null"
                      /\ ret[m].errors = e
            /\ (e = Some(<<>>) /\ Done(m)) =>
                 Count(trace[m], "original_execute") = 1

C14_Witness ==
    /\ hook = [at |-> "validation", errors |-> <<>>]
    /\ Len(stub.validate) > 0
    /\ \A m \in Modes : Done(m) /\ ValidationStepDone(m)

\* the external executor was called in the request of m
Executed(m) == Has(trace[m], "original_execute")

\* C15: context.result is written at most once per request, only after the
\* executor has returned a completed result, and then equals that result;
\* when the executor is not invoked or does not complete (the raise of
\* execute_sync), context.result is still unset when the call ends.
C15_ResultWrittenOnce ==
    \A m \in Modes :
        /\ Len(DriverWrites(m, "result")) <= 1
        /\ execution_context[m].result.set =>
             /\ Executed(m)
             /\ Len(DriverWrites(m, "result")) = 1
             /\ execution_context[m].result = Completed(stub.execute)
             /\ (m = "execute" /\ stub.awaitable) => Has(trace[m], "await")
             /\ m = "execute_sync" => ~stub.awaitable
        /\ (Done(m) /\ (~Executed(m) \/ Raised(m))) =>
             /\ ~execution_context[m].result.set
             /\ Len(DriverWrites(m, "result")) = 0
        /\ (Done(m) /\ Executed(m) /\ ~Raised(m)) =>
             execution_context[m].result.set

C15_Witness ==
    /\ Raised("execute_sync")
    /\ ~execution_context["execute_sync"].result.set
    /\ Returned("execute")
    /\ execution_context["execute"].result.set

\* the external parser was invoked and raised something other than GraphQLError
UnexpectedFailure(m) ==
    \E i \in 1..Len(trace[m]) :
        trace[m][i].ev = "parse" /\ trace[m][i].arg = CrashingQuery

\* C16: a failure in the parsing region that is not a parse error does not
\* leave the driver: it is wrapped into one query error whose cause is the
\* original failure, that error is the only entry of context.errors, and the
\* call returns data = null with exactly that error, without the validator
\* or the executor being invoked.
C16_UnexpectedFailureWrapped ==
    \A m \in Modes :
        UnexpectedFailure(m) =>
            /\ ret[m].kind # "raise"
            /\ ~Has(trace[m], "validation_enter")
            /\ ~Has(trace[m], "validate")
            /\ ~Executed(m)
            /\ Done(m) =>
                 /\ ret[m].kind = "return"
                 /\ ret[m].data = "null"
                 /\ Len(ret[m].errors.val) = 1
                 /\ ret[m].errors.val[1].original_error = "TypeError"
                 /\ ret[m].errors = Some(<<WrappedError("TypeError")>>)
                 /\ execution_context[m].errors = ret[m].errors

C16_Witness == \A m \in Modes : Done(m) /\ UnexpectedFailure(m)

\* execute_sync has the executor's completed result and is past the
\* statements that store it
SyncCompleted ==
    /\ Executed("execute_sync")
    /\ ~result["execute_sync"].awaitable
    /\ pc["execute_sync"] # "isawaitable"

\* C17: in execute_sync, after the executor completes with non-empty errors
\* in its result, context.errors equals that sequence when the request region
\* exits and when the terminal hooks run; when the result has no errors the
\* execution step leaves context.errors unchanged.
C17_SyncErrorsCopied ==
    LET m == "execute_sync"
        t == trace[m]
    IN  SyncCompleted =>
            IF Truthy(stub.execute.errors)
            THEN /\ execution_context[m].errors = stub.execute.errors
                 /\ Has(t, "request_exit") =>
                      t[Pos(m, "request_exit")].errors = stub.execute.errors
                 /\ Has(t, "get_extensions_results") =>
                      t[Pos(m, "get_extensions_results")].errors = stub.execute.errors
            ELSE /\ execution_context[m].errors = t[Pos(m, "original_execute")].errors
                 /\ \A i \in Pos(m, "original_execute")..Len(t) :
                      t[i].errors = t[Pos(m, "original_execute")].errors

C17_Witness ==
    /\ SyncCompleted
    /\ Truthy(stub.execute.errors)
    /\ Done("execute_sync")
    /\ Has(trace["execute_sync"], "get_extensions_results")

\* C18: the executor is invoked at most once per request; with validation
\* enabled it is invoked only when context.document is set and
\* context.errors is an empty sequence; a returned result with non-null data
\* implies that the executor was invoked and completed.
C18_ExecutorOnceOnValidDocument ==
    \A m \in Modes :
        /\ Count(trace[m], "original_execute") <= 1
        /\ (validate_queries /\ Executed(m)) =>
             /\ execution_context[m].graphql_document # NoDocument
             /\ document[m] = execution_context[m].graphql_document
             /\ trace[m][Pos(m, "original_execute")].errors = Some(<<>>)
        /\ (Returned(m) /\ ret[m].data # "null") =>
             /\ Executed(m)
             /\ ~result[m].awaitable
             /\ execution_context[m].result.set

C18_Witness ==
    /\ validate_queries
    /\ \A m \in Modes : Returned(m) /\ ret[m].data = "data" /\ Executed(m)

====
